---- MODULE Spec2Model ----
(***************************************************************************)
(* Model of the Albert plugin "Gnome Settings"                             *)
(* (src/gnome_settings/__init__.py).                                       *)
(*                                                                         *)
(* A Python str is a sequence of character codes (ASCII, 0..127), so that  *)
(* str.strip, str.lower, the `in` substring test and the regular           *)
(* expression of handleGlobalQuery are computed character by character.    *)
(*                                                                         *)
(* The plugin object holds the catalog settings_pages.  The host creates a *)
(* Query, calls one of the two handlers on it, may invoke the actions of   *)
(* the items it got back, and discards the query.                          *)
(***************************************************************************)
EXTENDS Integers, Sequences, FiniteSets

VARIABLES
  settings_pages,  \* Plugin.settings_pages, in dict insertion order
  pc,              \* "idle" | "pending" | "triggered" | "global"
  query,           \* Query.string of the current query (raw user text)
  items,           \* the items handed to query.add by handleTriggerQuery
  rank_items,      \* the list returned by handleGlobalQuery
  created,         \* page ids _create_item_for_page was called with
  raised,          \* TRUE when the handler ended in an uncaught KeyError
  spawned,         \* argument vectors given to subprocess.Popen for the
                   \* items of the current query, in call order
  nqueries         \* number of queries the host has created so far

vars == <<settings_pages, pc, query, items, rank_items, created,
          raised, spawned, nqueries>>

----------------------------------------------------------------------------
(* Bounds of the model *)

\* longest run of whitespace the host puts before or after the typed text
MaxPad == 1
\* most actions invoked on the items of one query
MaxSpawned == 2
\* most queries the host creates in one run
MaxQueries == 2

----------------------------------------------------------------------------
(* The catalog: the dict literal assigned in Plugin.__init__ *)

SettingsPages ==
  <<
    \* "wifi": "Wi-Fi" / "Configure wireless networks" / gnome-control-center wifi
    [ id |-> <<119, 105, 102, 105>>,
      title |-> <<87, 105, 45, 70, 105>>,
      description |-> <<67, 111, 110, 102, 105, 103, 117, 114, 101, 32, 119, 105, 114, 101, 108, 101, 115, 115, 32, 110, 101, 116, 119, 111, 114, 107, 115>>,
      command |-> <<<<103, 110, 111, 109, 101, 45, 99, 111, 110, 116, 114, 111, 108, 45, 99, 101, 110, 116, 101, 114>>, <<119, 105, 102, 105>>>> ],
    \* "network": "Network" / "Configure network connections" / gnome-control-center network
    [ id |-> <<110, 101, 116, 119, 111, 114, 107>>,
      title |-> <<78, 101, 116, 119, 111, 114, 107>>,
      description |-> <<67, 111, 110, 102, 105, 103, 117, 114, 101, 32, 110, 101, 116, 119, 111, 114, 107, 32, 99, 111, 110, 110, 101, 99, 116, 105, 111, 110, 115>>,
      command |-> <<<<103, 110, 111, 109, 101, 45, 99, 111, 110, 116, 114, 111, 108, 45, 99, 101, 110, 116, 101, 114>>, <<110, 101, 116, 119, 111, 114, 107>>>> ],
    \* "bluetooth": "Bluetooth" / "Configure Bluetooth devices" / gnome-control-center bluetooth
    [ id |-> <<98, 108, 117, 101, 116, 111, 111, 116, 104>>,
      title |-> <<66, 108, 117, 101, 116, 111, 111, 116, 104>>,
      description |-> <<67, 111, 110, 102, 105, 103, 117, 114, 101, 32, 66, 108, 117, 101, 116, 111, 111, 116, 104, 32, 100, 101, 118, 105, 99, 101, 115>>,
      command |-> <<<<103, 110, 111, 109, 101, 45, 99, 111, 110, 116, 114, 111, 108, 45, 99, 101, 110, 116, 101, 114>>, <<98, 108, 117, 101, 116, 111, 111, 116, 104>>>> ],
    \* "display": "Displays" / "Configure monitors and displays" / gnome-control-center display
    [ id |-> <<100, 105, 115, 112, 108, 97, 121>>,
      title |-> <<68, 105, 115, 112, 108, 97, 121, 115>>,
      description |-> <<67, 111, 110, 102, 105, 103, 117, 114, 101, 32, 109, 111, 110, 105, 116, 111, 114, 115, 32, 97, 110, 100, 32, 100, 105, 115, 112, 108, 97, 121, 115>>,
      command |-> <<<<103, 110, 111, 109, 101, 45, 99, 111, 110, 116, 114, 111, 108, 45, 99, 101, 110, 116, 101, 114>>, <<100, 105, 115, 112, 108, 97, 121>>>> ],
    \* "sound": "Sound" / "Configure audio devices and volume" / gnome-control-center sound
    [ id |-> <<115, 111, 117, 110, 100>>,
      title |-> <<83, 111, 117, 110, 100>>,
      description |-> <<67, 111, 110, 102, 105, 103, 117, 114, 101, 32, 97, 117, 100, 105, 111, 32, 100, 101, 118, 105, 99, 101, 115, 32, 97, 110, 100, 32, 118, 111, 108, 117, 109, 101>>,
      command |-> <<<<103, 110, 111, 109, 101, 45, 99, 111, 110, 116, 114, 111, 108, 45, 99, 101, 110, 116, 101, 114>>, <<115, 111, 117, 110, 100>>>> ],
    \* "power": "Power" / "Configure power saving options" / gnome-control-center power
    [ id |-> <<112, 111, 119, 101, 114>>,
      title |-> <<80, 111, 119, 101, 114>>,
      description |-> <<67, 111, 110, 102, 105, 103, 117, 114, 101, 32, 112, 111, 119, 101, 114, 32, 115, 97, 118, 105, 110, 103, 32, 111, 112, 116, 105, 111, 110, 115>>,
      command |-> <<<<103, 110, 111, 109, 101, 45, 99, 111, 110, 116, 114, 111, 108, 45, 99, 101, 110, 116, 101, 114>>, <<112, 111, 119, 101, 114>>>> ],
    \* "multitasking": "Multitasking" / "Multitasking gestures and prefrences" / gnome-control-center multitasking
    [ id |-> <<109, 117, 108, 116, 105, 116, 97, 115, 107, 105, 110, 103>>,
      title |-> <<77, 117, 108, 116, 105, 116, 97, 115, 107, 105, 110, 103>>,
      description |-> <<77, 117, 108, 116, 105, 116, 97, 115, 107, 105, 110, 103, 32, 103, 101, 115, 116, 117, 114, 101, 115, 32, 97, 110, 100, 32, 112, 114, 101, 102, 114, 101, 110, 99, 101, 115>>,
      command |-> <<<<103, 110, 111, 109, 101, 45, 99, 111, 110, 116, 114, 111, 108, 45, 99, 101, 110, 116, 101, 114>>, <<109, 117, 108, 116, 105, 116, 97, 115, 107, 105, 110, 103>>>> ],
    \* "appearance": "Appearance" / "Configure system theme and appearance" / gnome-control-center appearance
    [ id |-> <<97, 112, 112, 101, 97, 114, 97, 110, 99, 101>>,
      title |-> <<65, 112, 112, 101, 97, 114, 97, 110, 99, 101>>,
      description |-> <<67, 111, 110, 102, 105, 103, 117, 114, 101, 32, 115, 121, 115, 116, 101, 109, 32, 116, 104, 101, 109, 101, 32, 97, 110, 100, 32, 97, 112, 112, 101, 97, 114, 97, 110, 99, 101>>,
      command |-> <<<<103, 110, 111, 109, 101, 45, 99, 111, 110, 116, 114, 111, 108, 45, 99, 101, 110, 116, 101, 114>>, <<97, 112, 112, 101, 97, 114, 97, 110, 99, 101>>>> ],
    \* "applications": "Applications" / "Manage installed applications" / gnome-control-center applications
    [ id |-> <<97, 112, 112, 108, 105, 99, 97, 116, 105, 111, 110, 115>>,
      title |-> <<65, 112, 112, 108, 105, 99, 97, 116, 105, 111, 110, 115>>,
      description |-> <<77, 97, 110, 97, 103, 101, 32, 105, 110, 115, 116, 97, 108, 108, 101, 100, 32, 97, 112, 112, 108, 105, 99, 97, 116, 105, 111, 110, 115>>,
      command |-> <<<<103, 110, 111, 109, 101, 45, 99, 111, 110, 116, 114, 111, 108, 45, 99, 101, 110, 116, 101, 114>>, <<97, 112, 112, 108, 105, 99, 97, 116, 105, 111, 110, 115>>>> ],
    \* "notifications": "Notifications" / "Configure system notifications" / gnome-control-center notifications
    [ id |-> <<110, 111, 116, 105, 102, 105, 99, 97, 116, 105, 111, 110, 115>>,
      title |-> <<78, 111, 116, 105, 102, 105, 99, 97, 116, 105, 111, 110, 115>>,
      description |-> <<67, 111, 110, 102, 105, 103, 117, 114, 101, 32, 115, 121, 115, 116, 101, 109, 32, 110, 111, 116, 105, 102, 105, 99, 97, 116, 105, 111, 110, 115>>,
      command |-> <<<<103, 110, 111, 109, 101, 45, 99, 111, 110, 116, 114, 111, 108, 45, 99, 101, 110, 116, 101, 114>>, <<110, 111, 116, 105, 102, 105, 99, 97, 116, 105, 111, 110, 115>>>> ],
    \* "online-accounts": "Online Accounts" / "Configure online service accounts" / gnome-control-center online-accounts
    [ id |-> <<111, 110, 108, 105, 110, 101, 45, 97, 99, 99, 111, 117, 110, 116, 115>>,
      title |-> <<79, 110, 108, 105, 110, 101, 32, 65, 99, 99, 111, 117, 110, 116, 115>>,
      description |-> <<67, 111, 110, 102, 105, 103, 117, 114, 101, 32, 111, 110, 108, 105, 110, 101, 32, 115, 101, 114, 118, 105, 99, 101, 32, 97, 99, 99, 111, 117, 110, 116, 115>>,
      command |-> <<<<103, 110, 111, 109, 101, 45, 99, 111, 110, 116, 114, 111, 108, 45, 99, 101, 110, 116, 101, 114>>, <<111, 110, 108, 105, 110, 101, 45, 97, 99, 99, 111, 117, 110, 116, 115>>>> ],
    \* "sharing": "Sharing" / "Configure file and media sharing" / gnome-control-center sharing
    [ id |-> <<115, 104, 97, 114, 105, 110, 103>>,
      title |-> <<83, 104, 97, 114, 105, 110, 103>>,
      description |-> <<67, 111, 110, 102, 105, 103, 117, 114, 101, 32, 102, 105, 108, 101, 32, 97, 110, 100, 32, 109, 101, 100, 105, 97, 32, 115, 104, 97, 114, 105, 110, 103>>,
      command |-> <<<<103, 110, 111, 109, 101, 45, 99, 111, 110, 116, 114, 111, 108, 45, 99, 101, 110, 116, 101, 114>>, <<115, 104, 97, 114, 105, 110, 103>>>> ],
    \* "mouse": "Mouse & Touchpad" / "Configure pointing devices" / gnome-control-center mouse
    [ id |-> <<109, 111, 117, 115, 101>>,
      title |-> <<77, 111, 117, 115, 101, 32, 38, 32, 84, 111, 117, 99, 104, 112, 97, 100>>,
      description |-> <<67, 111, 110, 102, 105, 103, 117, 114, 101, 32, 112, 111, 105, 110, 116, 105, 110, 103, 32, 100, 101, 118, 105, 99, 101, 115>>,
      command |-> <<<<103, 110, 111, 109, 101, 45, 99, 111, 110, 116, 114, 111, 108, 45, 99, 101, 110, 116, 101, 114>>, <<109, 111, 117, 115, 101>>>> ],
    \* "keyboard": "Keyboard" / "Configure keyboard shortcuts and behavior" / gnome-control-center keyboard
    [ id |-> <<107, 101, 121, 98, 111, 97, 114, 100>>,
      title |-> <<75, 101, 121, 98, 111, 97, 114, 100>>,
      description |-> <<67, 111, 110, 102, 105, 103, 117, 114, 101, 32, 107, 101, 121, 98, 111, 97, 114, 100, 32, 115, 104, 111, 114, 116, 99, 117, 116, 115, 32, 97, 110, 100, 32, 98, 101, 104, 97, 118, 105, 111, 114>>,
      command |-> <<<<103, 110, 111, 109, 101, 45, 99, 111, 110, 116, 114, 111, 108, 45, 99, 101, 110, 116, 101, 114>>, <<107, 101, 121, 98, 111, 97, 114, 100>>>> ],
    \* "color": "Color" / "Adjust the Display Color Settings" / gnome-control-center color
    [ id |-> <<99, 111, 108, 111, 114>>,
      title |-> <<67, 111, 108, 111, 114>>,
      description |-> <<65, 100, 106, 117, 115, 116, 32, 116, 104, 101, 32, 68, 105, 115, 112, 108, 97, 121, 32, 67, 111, 108, 111, 114, 32, 83, 101, 116, 116, 105, 110, 103, 115>>,
      command |-> <<<<103, 110, 111, 109, 101, 45, 99, 111, 110, 116, 114, 111, 108, 45, 99, 101, 110, 116, 101, 114>>, <<99, 111, 108, 111, 114>>>> ],
    \* "printers": "Printers" / "Configure printers" / gnome-control-center printers
    [ id |-> <<112, 114, 105, 110, 116, 101, 114, 115>>,
      title |-> <<80, 114, 105, 110, 116, 101, 114, 115>>,
      description |-> <<67, 111, 110, 102, 105, 103, 117, 114, 101, 32, 112, 114, 105, 110, 116, 101, 114, 115>>,
      command |-> <<<<103, 110, 111, 109, 101, 45, 99, 111, 110, 116, 114, 111, 108, 45, 99, 101, 110, 116, 101, 114>>, <<112, 114, 105, 110, 116, 101, 114, 115>>>> ],
    \* "accessibility": "Accessibility" / "Configure accessibility options" / gnome-control-center universal-access
    [ id |-> <<97, 99, 99, 101, 115, 115, 105, 98, 105, 108, 105, 116, 121>>,
      title |-> <<65, 99, 99, 101, 115, 115, 105, 98, 105, 108, 105, 116, 121>>,
      description |-> <<67, 111, 110, 102, 105, 103, 117, 114, 101, 32, 97, 99, 99, 101, 115, 115, 105, 98, 105, 108, 105, 116, 121, 32, 111, 112, 116, 105, 111, 110, 115>>,
      command |-> <<<<103, 110, 111, 109, 101, 45, 99, 111, 110, 116, 114, 111, 108, 45, 99, 101, 110, 116, 101, 114>>, <<117, 110, 105, 118, 101, 114, 115, 97, 108, 45, 97, 99, 99, 101, 115, 115>>>> ],
    \* "privacy": "Privacy & Security" / "Configure privacy and security options" / gnome-control-center privacy
    [ id |-> <<112, 114, 105, 118, 97, 99, 121>>,
      title |-> <<80, 114, 105, 118, 97, 99, 121, 32, 38, 32, 83, 101, 99, 117, 114, 105, 116, 121>>,
      description |-> <<67, 111, 110, 102, 105, 103, 117, 114, 101, 32, 112, 114, 105, 118, 97, 99, 121, 32, 97, 110, 100, 32, 115, 101, 99, 117, 114, 105, 116, 121, 32, 111, 112, 116, 105, 111, 110, 115>>,
      command |-> <<<<103, 110, 111, 109, 101, 45, 99, 111, 110, 116, 114, 111, 108, 45, 99, 101, 110, 116, 101, 114>>, <<112, 114, 105, 118, 97, 99, 121>>>> ],
    \* "system": "System Settings" / "View system settings and information" / gnome-control-center system
    [ id |-> <<115, 121, 115, 116, 101, 109>>,
      title |-> <<83, 121, 115, 116, 101, 109, 32, 83, 101, 116, 116, 105, 110, 103, 115>>,
      description |-> <<86, 105, 101, 119, 32, 115, 121, 115, 116, 101, 109, 32, 115, 101, 116, 116, 105, 110, 103, 115, 32, 97, 110, 100, 32, 105, 110, 102, 111, 114, 109, 97, 116, 105, 111, 110>>,
      command |-> <<<<103, 110, 111, 109, 101, 45, 99, 111, 110, 116, 114, 111, 108, 45, 99, 101, 110, 116, 101, 114>>, <<115, 121, 115, 116, 101, 109>>>> ],
    \* "region": "Region & Language" / "Configure locale and language" / gnome-control-center region
    [ id |-> <<114, 101, 103, 105, 111, 110>>,
      title |-> <<82, 101, 103, 105, 111, 110, 32, 38, 32, 76, 97, 110, 103, 117, 97, 103, 101>>,
      description |-> <<67, 111, 110, 102, 105, 103, 117, 114, 101, 32, 108, 111, 99, 97, 108, 101, 32, 97, 110, 100, 32, 108, 97, 110, 103, 117, 97, 103, 101>>,
      command |-> <<<<103, 110, 111, 109, 101, 45, 99, 111, 110, 116, 114, 111, 108, 45, 99, 101, 110, 116, 101, 114>>, <<114, 101, 103, 105, 111, 110>>>> ],
    \* "datetime": "Date & Time" / "Configure system clock and timezone" / gnome-control-center datetime
    [ id |-> <<100, 97, 116, 101, 116, 105, 109, 101>>,
      title |-> <<68, 97, 116, 101, 32, 38, 32, 84, 105, 109, 101>>,
      description |-> <<67, 111, 110, 102, 105, 103, 117, 114, 101, 32, 115, 121, 115, 116, 101, 109, 32, 99, 108, 111, 99, 107, 32, 97, 110, 100, 32, 116, 105, 109, 101, 122, 111, 110, 101>>,
      command |-> <<<<103, 110, 111, 109, 101, 45, 99, 111, 110, 116, 114, 111, 108, 45, 99, 101, 110, 116, 101, 114>>, <<100, 97, 116, 101, 116, 105, 109, 101>>>> ],
    \* "users": "Users" / "Manage user accounts" / gnome-control-center users
    [ id |-> <<117, 115, 101, 114, 115>>,
      title |-> <<85, 115, 101, 114, 115>>,
      description |-> <<77, 97, 110, 97, 103, 101, 32, 117, 115, 101, 114, 32, 97, 99, 99, 111, 117, 110, 116, 115>>,
      command |-> <<<<103, 110, 111, 109, 101, 45, 99, 111, 110, 116, 114, 111, 108, 45, 99, 101, 110, 116, 101, 114>>, <<117, 115, 101, 114, 115>>>> ],
    \* "about": "About" / "System Software and Hardware details" / gnome-control-center about
    [ id |-> <<97, 98, 111, 117, 116>>,
      title |-> <<65, 98, 111, 117, 116>>,
      description |-> <<83, 121, 115, 116, 101, 109, 32, 83, 111, 102, 116, 119, 97, 114, 101, 32, 97, 110, 100, 32, 72, 97, 114, 100, 119, 97, 114, 101, 32, 100, 101, 116, 97, 105, 108, 115>>,
      command |-> <<<<103, 110, 111, 109, 101, 45, 99, 111, 110, 116, 114, 111, 108, 45, 99, 101, 110, 116, 101, 114>>, <<97, 98, 111, 117, 116>>>> ]
  >>

----------------------------------------------------------------------------
(* Query texts the host hands to the plugin *)

Cores ==
  {
    <<119, 105, 102, 105>>,  \* "wifi"
    <<110, 101, 116, 119, 111, 114, 107>>,  \* "network"
    <<98, 108, 117, 101, 116, 111, 111, 116, 104>>,  \* "bluetooth"
    <<100, 105, 115, 112, 108, 97, 121>>,  \* "display"
    <<115, 111, 117, 110, 100>>,  \* "sound"
    <<112, 111, 119, 101, 114>>,  \* "power"
    <<109, 117, 108, 116, 105, 116, 97, 115, 107, 105, 110, 103>>,  \* "multitasking"
    <<97, 112, 112, 101, 97, 114, 97, 110, 99, 101>>,  \* "appearance"
    <<97, 112, 112, 108, 105, 99, 97, 116, 105, 111, 110, 115>>,  \* "applications"
    <<110, 111, 116, 105, 102, 105, 99, 97, 116, 105, 111, 110, 115>>,  \* "notifications"
    <<111, 110, 108, 105, 110, 101, 45, 97, 99, 99, 111, 117, 110, 116, 115>>,  \* "online-accounts"
    <<115, 104, 97, 114, 105, 110, 103>>,  \* "sharing"
    <<109, 111, 117, 115, 101>>,  \* "mouse"
    <<107, 101, 121, 98, 111, 97, 114, 100>>,  \* "keyboard"
    <<99, 111, 108, 111, 114>>,  \* "color"
    <<112, 114, 105, 110, 116, 101, 114, 115>>,  \* "printers"
    <<97, 99, 99, 101, 115, 115, 105, 98, 105, 108, 105, 116, 121>>,  \* "accessibility"
    <<112, 114, 105, 118, 97, 99, 121>>,  \* "privacy"
    <<115, 121, 115, 116, 101, 109>>,  \* "system"
    <<114, 101, 103, 105, 111, 110>>,  \* "region"
    <<100, 97, 116, 101, 116, 105, 109, 101>>,  \* "datetime"
    <<117, 115, 101, 114, 115>>,  \* "users"
    <<97, 98, 111, 117, 116>>,  \* "about"
    <<>>,  \* ""
    <<110, 101, 116>>,  \* "net"
    <<119, 105>>,  \* "wi"
    <<119, 105, 45, 102, 105>>,  \* "wi-fi"
    <<109, 97, 110, 97, 103, 101>>,  \* "manage"
    <<122, 122, 45, 110, 111, 45, 115, 117, 99, 104, 45, 115, 117, 98, 115, 116, 114, 105, 110, 103>>,  \* "zz-no-such-substring"
    <<110, 101, 116, 32, 119, 111, 114, 107>>,  \* "net work"
    <<110, 101, 116, 9, 119, 111, 114, 107>>,  \* "net\twork"
    <<9, 110, 101, 116, 119, 111, 114, 107, 10>>,  \* "\tnetwork\n"
    <<117, 110, 105, 118, 101, 114, 115, 97, 108>>,  \* "universal"
    <<100, 105, 115, 112, 108, 97, 121, 115>>,  \* "displays"
    <<38>>,  \* "&"
    <<97, 95, 49>>,  \* "a_1"
    <<103, 110, 111, 109, 101>>,  \* "gnome"
    <<115, 101, 116, 116, 105, 110, 103, 115>>,  \* "settings"
    <<115, 101, 99, 117, 114, 105, 116, 121>>,  \* "security"
    <<111, 110, 108, 105, 110, 101>>,  \* "online"
    <<97, 99, 99, 111, 117, 110, 116, 115>>,  \* "accounts"
    <<111, 110, 108, 105, 110, 101, 95, 97, 99, 99, 111, 117, 110, 116, 115>>,  \* "online_accounts"
    <<116, 111, 117, 99, 104, 112, 97, 100>>   \* "touchpad"
  }

\* whitespace the host may leave around the typed text: spaces
PadChars == {32}

RECURSIVE PadsOfLen(_)
PadsOfLen(n) ==
  IF n = 0 THEN {<<>>}
  ELSE {<<c>> \o p : c \in PadChars, p \in PadsOfLen(n - 1)}

Pads == UNION {PadsOfLen(n) : n \in 0..MaxPad}

\* the text as typed with caps lock on
Upper(s) == [i \in 1..Len(s) |-> IF s[i] \in 97..122 THEN s[i] - 32 ELSE s[i]]

RawQueries ==
  {l \o t \o r : l \in Pads, r \in Pads,
                 t \in Cores \cup {Upper(c) : c \in Cores}}

----------------------------------------------------------------------------
(* Python str operations, on sequences of character codes *)

\* str.isspace of one character; the class \s of the re module is the same
IsSpace(c) == c \in (9..13) \cup (28..31) \cup {32}

\* variant: the hyphen counted as a word character
IsWordCharWithHyphen(c) ==
  c \in (48..57) \cup (65..90) \cup (97..122) \cup {95, 45}

\* the class \w of the re module: letters, digits, underscore
IsWordChar(c) == c \in (48..57) \cup (65..90) \cup (97..122) \cup {95}

LowerChar(c) == IF c \in 65..90 THEN c + 32 ELSE c

\* str.lower
Lower(s) == [i \in 1..Len(s) |-> LowerChar(s[i])]

\* str.strip: drop the whitespace before the first and after the last
\* character that is not whitespace
Strip(s) ==
  LET keep == {i \in 1..Len(s) : ~IsSpace(s[i])}
  IN IF keep = {} THEN <<>>
     ELSE LET first == CHOOSE i \in keep : \A j \in keep : i <= j
              last  == CHOOSE i \in keep : \A j \in keep : j <= i
          IN SubSeq(s, first, last)

\* sub in s
IsSubstring(sub, s) ==
  \E i \in 0..(Len(s) - Len(sub)) : \A j \in 1..Len(sub) : s[i + j] = sub[j]

\* variant: the pattern without its end anchor, ^\s*(?P<query>\w+)
WordMatchUnanchored(s) ==
  \E a \in 0..Len(s) : \E b \in (a + 1)..Len(s) :
    /\ \A i \in 1..a : IsSpace(s[i])
    /\ \A i \in (a + 1)..b : IsWordChar(s[i])

\* self.word_match.match(s) for the pattern ^\s*(?P<query>\w+)\s*$ :
\* whitespace, then one or more word characters, then whitespace to the end
WordMatch(s) ==
  \E a \in 0..Len(s) : \E b \in (a + 1)..Len(s) :
    /\ \A i \in 1..a : IsSpace(s[i])
    /\ \A i \in (a + 1)..b : IsWordChar(s[i])
    /\ \A i \in (b + 1)..Len(s) : IsSpace(s[i])

----------------------------------------------------------------------------
(* The plugin *)

\* "file:" + self.icon_path ; the directory of the plugin is not modelled
IconUrl == "file:settings.svg"

SettingsPrefix == <<115, 101, 116, 116, 105, 110, 103, 115, 58>>  \* "settings:"
OpenPrefix == <<111, 112, 101, 110, 58>>                          \* "open:"
OpenText == <<79, 112, 101, 110, 32>>                             \* "Open "

\* the score of every RankItem
Score == 100

\* page_id in pages
HasKey(pages, page_id) == \E i \in 1..Len(pages) : pages[i].id = page_id

\* pages[page_id]
PageInfo(pages, page_id) ==
  pages[CHOOSE i \in 1..Len(pages) : pages[i].id = page_id]

\* what _create_item_for_page leaves behind when page_id is not a key
KeyError == [exception |-> "KeyError"]

\* variant: the action's command rebuilt from the page id instead of taken
\* from the record
CreateItemForPageIdCommand(pages, page_id) ==
  IF ~HasKey(pages, page_id) THEN KeyError
  ELSE LET page_info == PageInfo(pages, page_id)
       IN [ id       |-> SettingsPrefix \o page_id,
            text     |-> page_info.title,
            subtext  |-> page_info.description,
            iconUrls |-> <<IconUrl>>,
            actions  |-> << [ id   |-> OpenPrefix \o page_id,
                              text |-> OpenText \o page_info.title,
                              cmd  |-> <<page_info.command[1], page_id>> ] >> ]

\* _create_item_for_page: the StandardItem of a page; the callable of its
\* action holds the command it was given when the item was built
CreateItemForPage(pages, page_id) ==
  IF ~HasKey(pages, page_id) THEN KeyError
  ELSE LET page_info == PageInfo(pages, page_id)
       IN [ id       |-> SettingsPrefix \o page_id,
            text     |-> page_info.title,
            subtext  |-> page_info.description,
            iconUrls |-> <<IconUrl>>,
            actions  |-> << [ id   |-> OpenPrefix \o page_id,
                              text |-> OpenText \o page_info.title,
                              cmd  |-> page_info.command ] >> ]

\* variant: the description left out of the test
PageMatchesNoDescription(query_string, page_id, page_info) ==
  \/ IsSubstring(query_string, page_id)
  \/ IsSubstring(query_string, Lower(page_info.title))

\* the test of the loop of _get_matching_items
PageMatches(query_string, page_id, page_info) ==
  \/ IsSubstring(query_string, page_id)
  \/ IsSubstring(query_string, Lower(page_info.title))
  \/ IsSubstring(query_string, Lower(page_info.description))

\* the loop of _get_matching_items from entry i on: the page ids it builds
\* an item for, in iteration order
RECURSIVE MatchingFrom(_, _, _)
MatchingFrom(pages, query_string, i) ==
  IF i > Len(pages) THEN <<>>
  ELSE (IF PageMatches(query_string, pages[i].id, pages[i])
        THEN <<pages[i].id>> ELSE <<>>)
       \o MatchingFrom(pages, query_string, i + 1)

\* variant: nothing returned for the empty query
MatchingIdsEmptyNone(pages, query_string) ==
  IF query_string = <<>>
  THEN <<>>
  ELSE MatchingFrom(pages, query_string, 1)

\* the page ids _get_matching_items calls _create_item_for_page with
MatchingIds(pages, query_string) ==
  IF query_string = <<>>
  THEN [i \in 1..Len(pages) |-> pages[i].id]
  ELSE MatchingFrom(pages, query_string, 1)

\* _get_matching_items
GetMatchingItems(pages, query_string) ==
  LET ids == MatchingIds(pages, query_string)
  IN [i \in 1..Len(ids) |-> CreateItemForPage(pages, ids[i])]

\* variant: the substring search of the triggered handler used for a word
GlobalIdsPartial(pages, query_string) ==
  IF ~WordMatch(query_string) THEN <<>>
  ELSE MatchingFrom(pages, query_string, 1)

\* variant: the key test left out
GlobalIdsUnchecked(pages, query_string) ==
  IF ~WordMatch(query_string) THEN <<>>
  ELSE <<query_string>>

\* the page ids handleGlobalQuery calls _create_item_for_page with
GlobalIds(pages, query_string) ==
  IF ~WordMatch(query_string) THEN <<>>
  ELSE IF HasKey(pages, query_string) THEN <<query_string>>
  ELSE <<>>

\* variant: the text lower-cased but not trimmed
NormalizeNoStrip(raw) == Lower(raw)

\* query_string = query.string.strip().lower(), in both handlers
Normalize(raw) == Lower(Strip(raw))

\* the items handleTriggerQuery adds to a query with text raw
TriggerItems(pages, raw) == GetMatchingItems(pages, Normalize(raw))

\* the page ids the builder is called with by handleTriggerQuery
TriggerCreated(pages, raw) == MatchingIds(pages, Normalize(raw))

\* the page ids the builder is called with by handleGlobalQuery
GlobalCreated(pages, raw) == GlobalIds(pages, Normalize(raw))

\* the list handleGlobalQuery returns for a query with text raw
GlobalRankItems(pages, raw) ==
  LET ids == GlobalCreated(pages, raw)
  IN [i \in 1..Len(ids) |->
        [item |-> CreateItemForPage(pages, ids[i]), score |-> Score]]

----------------------------------------------------------------------------
(* State machine *)

NoQuery == [none |-> TRUE]

Init ==
  /\ settings_pages = SettingsPages
  /\ pc = "idle"
  /\ query = NoQuery
  /\ items = <<>>
  /\ rank_items = <<>>
  /\ created = <<>>
  /\ raised = FALSE
  /\ spawned = <<>>
  /\ nqueries = 0

\* the host creates a Query with the text the user typed
NewQuery(raw) ==
  /\ pc = "idle"
  /\ nqueries < MaxQueries
  /\ pc' = "pending"
  /\ query' = raw
  /\ nqueries' = nqueries + 1
  /\ UNCHANGED <<settings_pages, items, rank_items, created, raised, spawned>>

\* variant: the handler removes the pages it returned from the catalog
HandleTriggerQueryConsuming ==
  /\ pc = "pending"
  /\ LET ids == TriggerCreated(settings_pages, query)
         res == TriggerItems(settings_pages, query)
         Kept(e) == \A i \in 1..Len(ids) : ids[i] # e.id
     IN /\ created' = ids
        /\ raised' = FALSE
        /\ items' = res
        /\ settings_pages' = SelectSeq(settings_pages, Kept)
  /\ pc' = "triggered"
  /\ UNCHANGED <<query, rank_items, spawned, nqueries>>

\* Plugin.handleTriggerQuery
HandleTriggerQuery ==
  /\ pc = "pending"
  /\ LET ids == TriggerCreated(settings_pages, query)
         res == TriggerItems(settings_pages, query)
         err == \E i \in 1..Len(res) : res[i] = KeyError
     IN /\ created' = ids
        /\ raised' = err
        /\ items' = IF err THEN <<>> ELSE res
  /\ pc' = "triggered"
  /\ UNCHANGED <<settings_pages, query, rank_items, spawned, nqueries>>

\* Plugin.handleGlobalQuery
HandleGlobalQuery ==
  /\ pc = "pending"
  /\ LET ids == GlobalCreated(settings_pages, query)
         res == GlobalRankItems(settings_pages, query)
         err == \E i \in 1..Len(res) : res[i].item = KeyError
     IN /\ created' = ids
        /\ raised' = err
        /\ rank_items' = IF err THEN <<>> ELSE res
  /\ pc' = "global"
  /\ UNCHANGED <<settings_pages, query, items, spawned, nqueries>>

\* the items the host shows for the current query
Shown ==
  IF pc = "triggered" THEN items
  ELSE IF pc = "global" THEN [i \in 1..Len(rank_items) |-> rank_items[i].item]
  ELSE <<>>

\* the callable of an action: subprocess.Popen(cmd), result dropped
Popen(cmd) == Append(spawned, cmd)

\* the host invokes action a of the i-th item shown
InvokeAction(i, a) ==
  /\ pc \in {"triggered", "global"}
  /\ i \in 1..Len(Shown)
  /\ a \in 1..Len(Shown[i].actions)
  /\ Len(spawned) < MaxSpawned
  /\ spawned' = Popen(Shown[i].actions[a].cmd)
  /\ UNCHANGED <<settings_pages, pc, query, items, rank_items,
                 created, raised, nqueries>>

\* the host discards the query and the items built for it
EndQuery ==
  /\ pc \in {"triggered", "global"}
  /\ pc' = "idle"
  /\ query' = NoQuery
  /\ items' = <<>>
  /\ rank_items' = <<>>
  /\ created' = <<>>
  /\ raised' = FALSE
  /\ spawned' = <<>>
  /\ UNCHANGED <<settings_pages, nqueries>>

Next ==
  \/ \E raw \in RawQueries : NewQuery(raw)
  \/ HandleTriggerQuery
  \/ HandleGlobalQuery
  \/ \E i \in 1..Len(settings_pages) : \E a \in {1} : InvokeAction(i, a)
  \/ EndQuery

Spec == Init /\ [][Next]_vars

----------------------------------------------------------------------------
(* Vocabulary of the properties, stated without the plugin's operators *)

Whitespace == {9, 10, 11, 12, 13, 28, 29, 30, 31, 32}
WordChars == (48..57) \cup (65..90) \cup (97..122) \cup {95}

RECURSIVE DropLeadingSpace(_)
DropLeadingSpace(s) ==
  IF s # <<>> /\ Head(s) \in Whitespace THEN DropLeadingSpace(Tail(s)) ELSE s

RECURSIVE DropTrailingSpace(_)
DropTrailingSpace(s) ==
  IF s # <<>> /\ s[Len(s)] \in Whitespace
  THEN DropTrailingSpace(SubSeq(s, 1, Len(s) - 1)) ELSE s

RECURSIVE LowerCased(_)
LowerCased(s) ==
  IF s = <<>> THEN <<>>
  ELSE <<IF 65 <= Head(s) /\ Head(s) <= 90 THEN Head(s) + 32 ELSE Head(s)>>
       \o LowerCased(Tail(s))

\* the raw text r trimmed at both ends and lower-cased
NormalForm(r) == LowerCased(DropTrailingSpace(DropLeadingSpace(r)))

\* the keys of the catalog
Keys == {settings_pages[n].id : n \in 1..Len(settings_pages)}

\* sub occurs in s as a contiguous run
Occurs(sub, s) ==
  \E i \in 1..(Len(s) - Len(sub) + 1) : SubSeq(s, i, i + Len(sub) - 1) = sub

\* the item id of a page
ItemId(page_id) == <<115, 101, 116, 116, 105, 110, 103, 115, 58>> \o page_id

OnlineAccounts ==
  <<111, 110, 108, 105, 110, 101, 45, 97, 99, 99, 111, 117, 110, 116, 115>>
Display == <<100, 105, 115, 112, 108, 97, 121>>
GnomeControlCenter ==
  <<103, 110, 111, 109, 101, 45, 99, 111, 110, 116, 114, 111, 108, 45,
    99, 101, 110, 116, 101, 114>>
Net == <<110, 101, 116>>
Network == <<110, 101, 116, 119, 111, 114, 107>>

----------------------------------------------------------------------------
(* Properties *)

\* C1: for every key k of the catalog, "online-accounts" included, the
\* global query handler called with the text k returns exactly one result:
\* the item with id "settings:" + k, with score 100.
GlobalFindsEveryKey ==
  (pc = "global" /\ query \in {SettingsPages[n].id : n \in 1..Len(SettingsPages)})
    => /\ Len(rank_items) = 1
       /\ rank_items[1].item.id = ItemId(query)
       /\ rank_items[1].score = 100

\* C2 as stated: a query text with a whitespace character or a character
\* outside the word class anywhere in it, leading and trailing positions
\* included, gets an empty result from the global query handler.
GlobalRejectsAnySpaceOrNonWord ==
  (pc = "global" /\ \E i \in 1..Len(query) : query[i] \notin WordChars)
    => rank_items = <<>>

\* a character that is neither whitespace nor a word character, or a
\* whitespace character with other characters on both sides of it
NonWordOrEmbeddedSpace(s) ==
  \/ \E i \in 1..Len(s) : s[i] \notin WordChars /\ s[i] \notin Whitespace
  \/ \E i, j, k \in 1..Len(s) :
       /\ i < j /\ j < k
       /\ s[i] \notin Whitespace /\ s[j] \in Whitespace /\ s[k] \notin Whitespace

\* C2 amended: a query text that contains a character that is neither
\* whitespace nor a word character, or a whitespace character between two
\* other characters, gets an empty result from the global query handler.
GlobalRejectsNonWordOrEmbeddedSpace ==
  (pc = "global" /\ NonWordOrEmbeddedSpace(query)) => rank_items = <<>>

GlobalRejectsNonWordOrEmbeddedSpaceWitness ==
  /\ pc = "global"
  /\ rank_items = <<>>
  /\ \E i, j, k \in 1..Len(query) :
       /\ i < j /\ j < k
       /\ query[i] \in WordChars /\ query[j] = 32 /\ query[k] \in WordChars

\* the catalog entry matches q in its id, its lower-cased title or its
\* lower-cased description
Hit(q, e) ==
  \/ Occurs(q, e.id)
  \/ Occurs(q, LowerCased(e.title))
  \/ Occurs(q, LowerCased(e.description))

\* C3: for a query that is not empty once normalized, the triggered search
\* returns exactly the catalog entries whose id, lower-cased title or
\* lower-cased description contains the query: each once, no other entry,
\* in catalog order.
TriggeredReturnsExactlyTheMatches ==
  (pc = "triggered" /\ NormalForm(query) # <<>>) =>
    LET q == NormalForm(query)
        Matches(e) == Hit(q, e)
        hits == SelectSeq(settings_pages, Matches)
    IN /\ Len(items) = Len(hits)
       /\ \A i \in 1..Len(hits) : items[i].id = ItemId(hits[i].id)

\* a query matched by several entries, one of them in its description only
TriggeredReturnsExactlyTheMatchesWitness ==
  /\ pc = "triggered"
  /\ NormalForm(query) # <<>>
  /\ Len(items) >= 2
  /\ \E n \in 1..Len(settings_pages) :
       /\ ~Occurs(NormalForm(query), settings_pages[n].id)
       /\ ~Occurs(NormalForm(query), LowerCased(settings_pages[n].title))
       /\ Occurs(NormalForm(query), LowerCased(settings_pages[n].description))

\* C4: the triggered search with a text that is empty, or empty once
\* trimmed, returns one item per catalog entry, in catalog order.
TriggeredEmptyReturnsAll ==
  (pc = "triggered" /\ \A i \in 1..Len(query) : query[i] \in Whitespace) =>
    /\ Len(items) = Len(settings_pages)
    /\ \A n \in 1..Len(settings_pages) : items[n].id = ItemId(settings_pages[n].id)

TriggeredEmptyReturnsAllWitness ==
  /\ pc = "triggered"
  /\ query # <<>>
  /\ \A i \in 1..Len(query) : query[i] \in Whitespace
  /\ Len(items) = 23

\* C5: the global query handler returns nothing for a text whose normal
\* form is not a key of the catalog, also when it is part of a key, a title
\* or a description; it never returns more than one result.
GlobalNeverMatchesPartially ==
  pc = "global" =>
    /\ NormalForm(query) \notin Keys => rank_items = <<>>
    /\ Len(rank_items) <= 1

\* "net" in some casing, which is part of the key "network"
GlobalNeverMatchesPartiallyWitness ==
  /\ pc = "global"
  /\ NormalForm(query) = Net
  /\ Occurs(NormalForm(query), Network)
  /\ rank_items = <<>>

\* the command of the catalog record an item was built for
CommandOf(item) ==
  LET n == CHOOSE n \in 1..Len(settings_pages) :
             item.id = ItemId(settings_pages[n].id)
  IN settings_pages[n].command

\* C6: invoking the action of an item built for key k launches exactly one
\* process, with the command of the record of k as argument vector (for
\* "display": gnome-control-center display), whatever was built or invoked
\* before; creating and answering a query launches nothing.
ActionSpawnsTheRecordCommand ==
  [][ /\ \A i \in 1..Len(Shown) :
           InvokeAction(i, 1) =>
             /\ Len(Shown[i].actions) = 1
             /\ spawned' = spawned \o <<CommandOf(Shown[i])>>
             /\ Shown[i].id = ItemId(Display) =>
                  spawned'[Len(spawned')] = <<GnomeControlCenter, Display>>
      /\ pc \in {"idle", "pending"} => spawned' = spawned ]_vars

\* two actions invoked against the order of the list, the later item first
ActionSpawnsTheRecordCommandWitness ==
  /\ pc = "triggered"
  /\ Len(spawned) = 2
  /\ \E i, j \in 1..Len(items) :
       /\ i < j
       /\ spawned[1] = CommandOf(items[j])
       /\ spawned[2] = CommandOf(items[i])
       /\ spawned[1] # spawned[2]

\* C7: both handlers answer a raw text as they answer its normal form (the
\* text trimmed at both ends and lower-cased).
HandlersNormalizeTheirInput ==
  /\ pc = "triggered" => items = TriggerItems(settings_pages, NormalForm(query))
  /\ pc = "global" => rank_items = GlobalRankItems(settings_pages, NormalForm(query))

\* a padded text with capitals that the global search answers
HandlersNormalizeTheirInputWitness ==
  /\ pc = "global"
  /\ query # NormalForm(query)
  /\ Len(query) > Len(NormalForm(query))
  /\ \E i \in 1..Len(query) : query[i] \in 65..90
  /\ Len(rank_items) = 1

\* C8: no step changes the catalog, and the answer to a query is the answer
\* the plugin as constructed gives to that text, whatever queries and
\* action invocations came before.
CatalogFixedAndAnswersRepeatable ==
  [][ /\ settings_pages' = settings_pages
      /\ settings_pages' = SettingsPages
      /\ pc' = "triggered" => items' = TriggerItems(SettingsPages, query')
      /\ pc' = "global" => rank_items' = GlobalRankItems(SettingsPages, query') ]_vars

\* a second query answered after the first one
CatalogFixedAndAnswersRepeatableWitness ==
  /\ nqueries = 2
  /\ pc = "triggered"
  /\ items # <<>>
  /\ spawned # <<>>

\* C9: the global query handler never returns the item of the key
\* "online-accounts", whatever the text; the triggered search returns it
\* for the text "online-accounts".
OnlineAccountsNeverGlobal ==
  /\ pc = "global" =>
       \A i \in 1..Len(rank_items) : rank_items[i].item.id # ItemId(OnlineAccounts)
  /\ (pc = "triggered" /\ NormalForm(query) = OnlineAccounts) =>
       \E i \in 1..Len(items) : items[i].id = ItemId(OnlineAccounts)

OnlineAccountsNeverGlobalWitness ==
  /\ pc = "global"
  /\ query = OnlineAccounts
  /\ OnlineAccounts \in Keys
  /\ rank_items = <<>>

\* C10: every page id a query handler passes to the item builder is a key
\* of the catalog, so no handler ends in the builder's KeyError.
BuilderOnlyGetsKeys ==
  /\ ~raised
  /\ \A i \in 1..Len(created) : created[i] \in Keys

\* the builder was called by the global handler, and by the triggered
\* search for a proper part of the catalog
BuilderOnlyGetsKeysWitness ==
  /\ pc \in {"triggered", "global"}
  /\ Len(created) >= 1
  /\ Len(created) < Len(settings_pages)
  /\ query \notin Keys

====
